---- MODULE Spec2Model ----
(***************************************************************************)
(* Model of the crossroadsbot conversation lock, the interactive signup    *)
(* flows (join_training, edit_signup, remove_signup, list_signup) and the  *)
(* storage rows they read and write.                                       *)
(***************************************************************************)
EXTENDS Integers, FiniteSets, Sequences, TLC

\* ---------------------------------------------------------------- bounds
MaxCmds == 2        \* command invocations started in one behaviour
MaxToggles == 3     \* toggles counted per role in the selection specification
MaxRefresh == 3     \* update_training calls started in one behaviour
MaxTime == 8        \* minutes of one conversation in the timer specification
MaxWaits == 4       \* waits answered in the timer specification

\* DEFAULT_TIMEOUT = Duration::from_secs(60 * 3), in minutes
DEFAULT_TIMEOUT == 3

\* ------------------------------------------------------------- universes
Users == {"u1", "u2"}                 \* chat identities (UserId)
Tasks == {"t1", "t2"}                 \* concurrently running command tasks
Roles == {"A", "B"}                   \* rows of the roles table (by id)
Trainings == {1, 2}                   \* rows of the trainings table (by id)
Gw2Ids == {"g1", "g2"}                \* game identities
TaskNo == [t \in Tasks |-> IF t = "t1" THEN 1 ELSE 2]
Commands == {"join", "edit", "remove", "list", "dialog", "conv"}

\* the training_id arguments of the commands: the trainings and an id that
\* no training has
TrainingIds == Trainings \cup {3}

\* TrainingState, in declaration order
TrainingState == <<"Created", "Open", "Closed", "Started", "Finished">>
TrainingStates == {TrainingState[i] : i \in 1..Len(TrainingState)}

\* the training_roles table: fixed rows (training_id, role_id)
training_roles == {<<1, "A">>, <<1, "B">>}
\* trainings.tier_id: training 2 carries a tier, training 1 none
tier_id == [tr \in Trainings |-> IF tr = 2 THEN "tier" ELSE "none"]

\* reactions on the anchor message: one emoji per role, confirm and cancel
Emojis == Roles \cup {"confirm", "cancel"}
\* no wait step made yet; a wait step that elapsed without a delivered event
NoEvent == [author |-> "none", emoji |-> "none"]
Elapsed == [author |-> "none", emoji |-> "timeout"]

\* trainings.date of every training, and the board channel name made of it:
\* format(CHANNEL_TIME_FORMAT), to_lowercase, spaces removed
Dates == {"Tue- 3-Nov-2026"}
date == [tr \in Trainings |-> "Tue- 3-Nov-2026"]
TimeFmt == [d \in Dates |-> "tue-3-nov-2026"]

\* no update_training returned in the last step
NoBoardRet == [tr |-> 0, result |-> "none", action |-> "none", msg |-> 0]

\* no command returned in the last step
NoRet == [cmd |-> "none", owner |-> "none", tid |-> 0,
          result |-> "none", notice |-> "none", listed |-> {}]

VARIABLES
    lock,        \* ConversationLock: the DashSet<UserId>
    pc,          \* per task: position in its command
    cmd,         \* per task: the command it runs / ran last
    owner,       \* per task: the chat user of the command
    tid,         \* per task: the training_id argument
    sid,         \* per task: ids of the Signup row the flow holds ({} or one id)
    selected,    \* per task: select_roles' selected set
    unselected,  \* per task: select_roles' unselected set
    had,         \* per task: edit_signup's `set`, the roles get_roles returned
    chan,        \* per task: the Conversation's DM channel was obtained
    anchor,      \* per task: the Conversation's anchor message was sent
    ret,         \* the command return made by the last step, NoRet if none
    users,       \* users table
    state,       \* trainings.state
    active,      \* roles.active
    signups,     \* signups table
    signup_roles,\* signup_roles table
    nextId,      \* serial of the signups table
    ncmds,       \* commands started so far
    toggles,     \* selection specification: toggles seen per role
    start_sel,   \* selection specification: the selected set it started with
    start_unsel, \* selection specification: the unselected set it started with
    last_ev,     \* selection specification: what the last wait step saw
    sel_result,  \* selection specification: select_roles' result so far
    current,     \* SignupBoard.current: the cache, triples (message id, training
                 \* id, state of the Training as the refresh loaded it)
    channels,    \* text channels of the board category: [id, name]
    messages,    \* messages in those channels: [id, chan, desc, shown]
    bpc,         \* per training: position of its update_training call
    bsnap,       \* per training: the state by_id loaded for the call
    bchan,       \* per training: ids of the channel the call works on
    bmsg,        \* per training: ids of the message the call found
    bret,        \* the update_training return made by the last step
    nrefresh,    \* update_training calls started so far
    bclean,      \* no update_training call failed and no restart happened so far
    config,      \* the names of the rows of the config table
    startup,     \* what Handler::ready did last: "skipped" or "reset"
    now,         \* timer specification: minutes since the conversation started
    wait_start,  \* timer specification: when the running wait began
    wait_kind,   \* timer specification: the helper the running wait was made with
    nwaits,      \* timer specification: waits answered so far
    timer_result \* timer specification: "waiting", or "TimedOut" once a wait elapsed

vars == <<lock, pc, cmd, owner, tid, sid, selected, unselected, had,
          chan, anchor, ret, users, state, active, signups, signup_roles, nextId,
          ncmds, toggles, start_sel, start_unsel, last_ev, sel_result,
          current, channels, messages, bpc, bsnap, bchan, bmsg, bret, nrefresh,
          bclean, config, startup, now, wait_start, wait_kind, nwaits, timer_result>>

task_vars ==
    <<pc, cmd, owner, tid, sid, selected, unselected, had, chan, anchor>>
db_vars == <<users, state, active, signups, signup_roles, nextId>>
sel_vars == <<toggles, start_sel, start_unsel, last_ev, sel_result>>
board_vars == <<current, channels, messages, bpc, bsnap, bchan, bmsg, bret,
                nrefresh, bclean, config, startup>>
timer_vars == <<now, wait_start, wait_kind, nwaits, timer_result>>
\* what the signup flows never touch
side_vars == <<sel_vars, board_vars, timer_vars>>

\* ------------------------------------------------------------- the lock
\* faulty variant: the insert stores nothing
DashSetInsert_Forgets(l, u) == l

\* DashSet::insert: the set afterwards
DashSetInsert(l, u) == l \cup {u}

\* faulty variant: one lock for all users
InsertIsNew_Global(l, u) == l = {}

\* faulty variant: every insert reports a new value
InsertIsNew_Always(l, u) == TRUE

\* DashSet::insert returns true iff the value was not present
InsertIsNew(l, u) == u \notin l

\* faulty variant: the rejected start releases the holder's entry
ErrLocked_Drops(l, u) == l \ {u}

\* start's ConversationLocked return: no Conversation exists, nothing is dropped
ErrLocked(l, u) == l

\* faulty variant: the error return forgets lock.remove
ReleaseOnStartError_Keeps(l, u) == l

\* start's lock.remove on NoDmChannel / DmBlocked
ReleaseOnStartError(l, u) == l \ {u}

\* faulty variant: dropping a Conversation keeps the entry
Drop_Leaks(l, u) == l

\* impl Drop for Conversation
Drop(l, u) == l \ {u}

\* ------------------------------------------------------------ storage
\* faulty variant: the query has no filter on discord_id
UserByDiscordId_Any(u) == users

\* select_user_by_discord_id: the rows with this discord_id
UserByDiscordId(u) == {row \in users : row.discord_id = u}

\* the User row the flow of task t loaded
DbUser(t) == CHOOSE row \in users : row.discord_id = owner[t]

\* faulty variant: the lookup is by id alone
ByIdAndState_AnyState(id, st) == {tr \in Trainings : tr = id}

\* Training::by_id_and_state: the matching ids
ByIdAndState(id, st) == {tr \in Trainings : tr = id /\ state[tr] = st}

\* faulty variant: the lookup never finds a row
ByUserAndTraining_Blind(uid, tr) == {}

\* Signup::by_user_and_training: the matching rows
ByUserAndTraining(uid, tr) ==
    {s \in signups : s.user_id = uid /\ s.training_id = tr}

\* faulty variants: every role, or the roles of training 1 whatever the training
GetTrainingRoles_All(tr) == Roles
GetTrainingRoles_First(tr) == {p[2] : p \in {q \in training_roles : q[1] = 1}}

\* Training::get_training_roles: the role ids of the training's TrainingRoles
GetTrainingRoles(tr) == {p[2] : p \in {q \in training_roles : q[1] = tr}}

\* faulty variant: role_unfilterd, which loads deactivated roles as well
RoleLoads_Unfiltered(r) == TRUE

\* TrainingRole::role succeeds only for an active role
RoleLoads(r) == active[r]

\* Signup::get_roles: the role ids stored for a signup id
GetRoles(id) == {sr.role_id : sr \in {x \in signup_roles : x.signup_id = id}}

\* NewSignup::add: the table after the insert
NewSignupAdd(uid, tr) ==
    signups \cup {[id |-> nextId, user_id |-> uid, training_id |-> tr]}

\* faulty variant: the inserts store a row for every role there is
NewSignupRoleAdd_AllRoles(id, rs) ==
    signup_roles \cup {[signup_id |-> id, role_id |-> r] : r \in Roles}

\* faulty variant: the inserts store nothing
NewSignupRoleAdd_Nothing(id, rs) == signup_roles

\* NewSignupRole::add for every role of rs: the table after the inserts
NewSignupRoleAdd(id, rs) ==
    signup_roles \cup {[signup_id |-> id, role_id |-> r] : r \in rs}

\* faulty variant: the delete removes nothing
ClearRolesOf_Keeps(id) == signup_roles

\* Signup::clear_roles: the table after the delete
ClearRolesOf(id) == {sr \in signup_roles : sr.signup_id # id}

\* select_active_signups_trainings_by_user: signups joined with their user and
\* their training, under
\*   .filter(users::id.eq(user_id)).filter(state.eq(Open))
\*   .or_filter(state.eq(Closed)).or_filter(state.eq(Started))
\* where filter puts AND and or_filter puts OR around the clause built so far:
\*   ((users.id = user_id AND state = Open) OR state = Closed) OR state = Started
ActiveSignups(uid) ==
    {s \in signups :
        /\ \E row \in users : row.id = s.user_id
        /\ s.training_id \in Trainings
        /\ \/ (s.user_id = uid /\ state[s.training_id] = "Open")
           \/ state[s.training_id] = "Closed"
           \/ state[s.training_id] = "Started"}

\* select_joined_active_trainings_by_user: the same join and filters, selecting
\* the training columns
JoinedActiveTrainings(uid) == {s.training_id : s \in ActiveSignups(uid)}

\* faulty variant: the delete is filtered by the training, not by the id
RemoveMatches_WholeTraining(id) ==
    {s \in signups : \E own \in signups :
                        own.id = id /\ s.training_id = own.training_id}

\* Signup::remove: the rows the delete statement matches
RemoveMatches(id) == {s \in signups : s.id = id}

\* faulty variant: a plain insert, no on_conflict
UpsertRows_AlwaysInsert(u, g) ==
    users \cup {[id |-> Cardinality(users) + 1, discord_id |-> u, gw2_id |-> g]}

\* upsert_user: insert into users, on conflict of discord_id update the row
\* with the values given (the id is not among them)
UpsertRows(u, g) ==
    IF UserByDiscordId(u) = {}
    THEN users \cup {[id |-> Cardinality(users) + 1,
                      discord_id |-> u, gw2_id |-> g]}
    ELSE {IF row.discord_id = u
          THEN [row EXCEPT !.gw2_id = g] ELSE row : row \in users}

\* faulty variant: the update misses the .find(training_id) and hits every row
UpdateState_EveryRow(tr, st) == [x \in Trainings |-> st]

\* diesel::update(trainings::table.find(training_id)).set(state.eq(state)):
\* the given state is stored, the stored one is not read
UpdateState(tr, st) == [state EXCEPT ![tr] = st]

\* faulty variant: the statement flips the flag
DeactivateRole_Toggles(r) == [active EXCEPT ![r] = ~@]

\* Role::deactivate: update roles set active = false where id = r
DeactivateRole(r) == [active EXCEPT ![r] = FALSE]

\* ------------------------------------------------- the order of a flow
\* faulty variant: edit_signup clears the stored roles before the selection
Then_ClearFirst(c, p) ==
    IF c = "join"
    THEN (IF p = "roles" THEN "select" ELSE "save")
    ELSE CASE p = "roles" -> "clear"
           [] p = "clear" -> "select"
           [] OTHER -> "save"

\* the statement that follows position p in the flow of command c: join_training
\* selects and saves; edit_signup selects, then clears, then saves
Then(c, p) ==
    IF c = "join"
    THEN (IF p = "roles" THEN "select" ELSE "save")
    ELSE CASE p = "roles" -> "select"
           [] p = "select" -> "clear"
           [] OTHER -> "save"

\* ------------------------------------------------- role selection (utils)
\* faulty variant: a deselected role is not put back among the unselected
ToggleRole_Drops(sel, unsel, r) ==
    IF r \in sel THEN <<sel \ {r}, unsel>>
    ELSE IF r \in unsel THEN <<sel \cup {r}, unsel \ {r}>>
    ELSE <<sel, unsel>>

\* faulty variant: a role emoji only ever selects
ToggleRole_AddOnly(sel, unsel, r) ==
    IF r \in unsel THEN <<sel \cup {r}, unsel \ {r}>> ELSE <<sel, unsel>>

\* select_roles, on a role emoji: move the role between the two sets
ToggleRole(sel, unsel, r) ==
    IF r \in sel THEN <<sel \ {r}, unsel \cup {r}>>
    ELSE IF r \in unsel THEN <<sel \cup {r}, unsel \ {r}>>
    ELSE <<sel, unsel>>

\* faulty variant: a role emoji is taken for the confirm
OnWait_RoleConfirms(e) ==
    IF e = "timeout" THEN "TimedOut" ELSE IF e = "cancel" THEN "Canceled" ELSE "Ok"

\* faulty variants: the collector delivers anybody's reaction; an elapsed wait
\* is taken for a cancel
AuthorFilter_Any(author, u) == TRUE
OnWait_CancelOnNone(e) ==
    IF e \in {"timeout", "cancel"} THEN "Canceled"
    ELSE IF e = "confirm" THEN "Ok" ELSE "waiting"

\* await_reaction / await_reactions: .author_id(self.user.id), the collector
\* hands over only the reactions of the conversation's user
AuthorFilter(author, u) == author = u

\* select_roles, on the outcome of one wait step: None is TimedOut, confirm
\* returns the selected set, cancel is Canceled, a role emoji keeps the loop going
OnWait(e) ==
    IF e = "timeout" THEN "TimedOut"
    ELSE IF e = "confirm" THEN "Ok"
    ELSE IF e = "cancel" THEN "Canceled"
    ELSE "waiting"

\* the chat users that hold the guild role the tier is mapped to
tier_holders == {"u1"}

\* faulty variant: the tier is not looked at
TierPasses_Always(tr, u) == TRUE

\* verify_tier: a training without tier passes; otherwise the has-role check
\* of the user decides
TierPasses(tr, u) == tier_id[tr] = "none" \/ u \in tier_holders

\* ---------------------------------------------------------------- Init
Init ==
    /\ lock = {}
    /\ pc = [t \in Tasks |-> "idle"]
    /\ cmd = [t \in Tasks |-> "none"]
    /\ owner = [t \in Tasks |-> "none"]
    /\ tid = [t \in Tasks |-> 0]
    /\ sid = [t \in Tasks |-> {}]
    /\ selected = [t \in Tasks |-> {}]
    /\ unselected = [t \in Tasks |-> {}]
    /\ had = [t \in Tasks |-> {}]
    /\ chan = [t \in Tasks |-> FALSE]
    /\ anchor = [t \in Tasks |-> FALSE]
    /\ ret = NoRet
    /\ users = {[id |-> 1, discord_id |-> "u1", gw2_id |-> "g1"]}
    /\ state = [tr \in Trainings |-> "Open"]
    /\ active = [r \in Roles |-> TRUE]
    /\ signups = {}
    /\ signup_roles = {}
    /\ nextId = 1
    /\ ncmds = 0
    /\ toggles = [r \in Roles |-> 0]
    /\ start_sel = {}
    /\ start_unsel = {}
    /\ last_ev = NoEvent
    /\ sel_result = "waiting"
    /\ current = {}
    /\ channels = {}
    /\ messages = {}
    /\ bpc = [tr \in Trainings |-> "idle"]
    /\ bsnap = [tr \in Trainings |-> "none"]
    /\ bchan = [tr \in Trainings |-> {}]
    /\ bmsg = [tr \in Trainings |-> {}]
    /\ bret = NoBoardRet
    /\ nrefresh = 0
    /\ bclean = TRUE
    /\ config = {}
    /\ startup = "skipped"
    /\ now = 0
    /\ wait_start = 0
    /\ wait_kind = "await_reply"
    /\ nwaits = 0
    /\ timer_result = "waiting"

\* --------------------------------------------------- leaving a command
\* What the command of task t returns, and the last message it tried to send:
\* "unexpected" for unexpected_error, "final" for the message of its outcome.
Returned(t, res, note) ==
    [cmd |-> cmd[t], owner |-> owner[t], tid |-> tid[t],
     result |-> res, notice |-> note, listed |-> {}]

\* the task slot is free again
Release(t) ==
    /\ pc' = [pc EXCEPT ![t] = "idle"]
    /\ cmd' = [cmd EXCEPT ![t] = "none"]
    /\ owner' = [owner EXCEPT ![t] = "none"]
    /\ tid' = [tid EXCEPT ![t] = 0]
    /\ sid' = [sid EXCEPT ![t] = {}]
    /\ selected' = [selected EXCEPT ![t] = {}]
    /\ unselected' = [unselected EXCEPT ![t] = {}]
    /\ had' = [had EXCEPT ![t] = {}]
    /\ chan' = [chan EXCEPT ![t] = FALSE]
    /\ anchor' = [anchor EXCEPT ![t] = FALSE]
    /\ UNCHANGED <<ncmds, side_vars>>

\* The command of task t returns res: the Conversation goes out of scope.
Finish(t, res, note) ==
    /\ lock' = Drop(lock, owner[t])
    /\ ret' = Returned(t, res, note)
    /\ Release(t)

\* `send(..).await?; return Ok(res)`: a failed send returns its error instead
Return(t, res, note) ==
    \E sent \in BOOLEAN : Finish(t, IF sent THEN res ELSE "Err", note)

\* `conv.unexpected_error(ctx).await?; return Err(e)`
Unexpected(t) == Finish(t, "Err", "unexpected")

\* the flow moves on to position p, still holding the Conversation
Goto(t, p) ==
    /\ pc' = [pc EXCEPT ![t] = p]
    /\ ret' = NoRet
    /\ UNCHANGED <<lock, cmd, owner, tid, chan, anchor, ncmds, side_vars>>

\* ------------------------------------------------- Conversation::start
Start(t) ==
    /\ pc[t] = "idle"
    /\ ncmds < MaxCmds
    /\ ncmds' = ncmds + 1
    \* a new command takes the first free task slot
    /\ \A other \in Tasks : pc[other] = "idle" => TaskNo[t] <= TaskNo[other]
    /\ \E u \in Users, c \in Commands, tr \in TrainingIds :
        /\ c \in {"list", "dialog", "conv"} => tr = 1
        \* an id without a training is given to remove only
        /\ tr \notin Trainings => c = "remove"
        /\ IF InsertIsNew(lock, u)
           THEN /\ lock' = DashSetInsert(lock, u)
                /\ pc' = [pc EXCEPT ![t] = "dm"]
                /\ cmd' = [cmd EXCEPT ![t] = c]
                /\ owner' = [owner EXCEPT ![t] = u]
                /\ tid' = [tid EXCEPT ![t] = tr]
                /\ ret' = NoRet
           ELSE /\ lock' = ErrLocked(lock, u)
                /\ ret' = [NoRet EXCEPT !.cmd = c, !.owner = u, !.tid = tr,
                                        !.result = "ConversationLocked"]
                /\ UNCHANGED <<pc, cmd, owner, tid>>
    /\ UNCHANGED <<sid, selected, unselected, had, chan, anchor, db_vars,
                   side_vars>>

\* start fails after the insert: the lock is removed by hand, no Conversation exists
StartError(t, res) ==
    /\ lock' = ReleaseOnStartError(lock, owner[t])
    /\ ret' = Returned(t, res, "none")
    /\ Release(t)

\* user.create_dm_channel(ctx).await
CreateDm(t) ==
    /\ pc[t] = "dm"
    /\ \/ /\ chan' = [chan EXCEPT ![t] = TRUE]
          /\ pc' = [pc EXCEPT ![t] =
                        IF cmd[t] = "dialog" THEN "active" ELSE "anchor"]
          /\ ret' = NoRet
          /\ UNCHANGED <<lock, cmd, owner, tid, sid, selected, unselected, had,
                         anchor, ncmds, side_vars>>
       \/ StartError(t, "NoDmChannel")
    /\ UNCHANGED db_vars

\* chan.send_message(ctx, "Loading ...").await
SendAnchor(t) ==
    /\ pc[t] = "anchor"
    /\ \/ /\ anchor' = [anchor EXCEPT ![t] = TRUE]
          /\ pc' = [pc EXCEPT ![t] =
                        IF cmd[t] = "conv" THEN "active" ELSE "user"]
          /\ ret' = NoRet
          /\ UNCHANGED <<lock, cmd, owner, tid, sid, selected, unselected, had,
                         chan, ncmds, side_vars>>
       \/ StartError(t, "DmBlocked")
    /\ UNCHANGED db_vars

\* A Conversation driven by a caller outside the flows: it ends through one of
\* the consuming methods or by going out of scope.
EndDialog(t) ==
    /\ pc[t] = "active"
    /\ \E how \in IF cmd[t] = "dialog"
                  THEN {"timeout_msg", "abort", "drop"}
                  ELSE {"timeout_msg", "canceled_msg", "unexpected_error",
                        "finish_with_msg", "abort", "drop"} :
          IF how = "drop" THEN Finish(t, "Dropped", "none")
                          ELSE Return(t, "Ended", "final")
    /\ UNCHANGED db_vars

\* ------------------------------------------------------ the signup flows
Flows == {"join", "edit", "remove", "list"}

\* The checks every flow opens with, each with its three arms: the reads are
\* taken in one step (rows of users are never deleted and the has-role answer
\* is the platform's, so the step stands for the reads done one after another).
\*   db::User::by_discord_id                          (all four flows)
\*   db::Training::by_id_and_state(training_id, Open) (join, edit, remove)
\*   verify_tier                                      (join)
Checks(t) ==
    /\ pc[t] = "user"
    /\ \/ /\ UserByDiscordId(owner[t]) = {}
          /\ Return(t, "User not registered", "final")
       \/ /\ UserByDiscordId(owner[t]) # {}
          /\ cmd[t] = "list"
          /\ Goto(t, "list")
          /\ UNCHANGED <<sid, selected, unselected, had>>
       \/ /\ UserByDiscordId(owner[t]) # {}
          /\ cmd[t] # "list"
          /\ ByIdAndState(tid[t], "Open") = {}
          /\ Return(t, "Training not found or not open", "final")
       \/ /\ UserByDiscordId(owner[t]) # {}
          /\ cmd[t] # "list"
          /\ ByIdAndState(tid[t], "Open") # {}
          /\ IF cmd[t] = "join" /\ ~TierPasses(tid[t], owner[t])
             THEN Return(t, "Tier requirement not fulfilled", "final")
             ELSE /\ Goto(t, "signup")
                  /\ UNCHANGED <<sid, selected, unselected, had>>
       \/ \* one of the reads fails
          Unexpected(t)
    /\ UNCHANGED db_vars

\* db::Signup::by_user_and_training and its arms
LookupSignup(t) ==
    /\ pc[t] = "signup"
    /\ LET found == ByUserAndTraining(DbUser(t).id, tid[t]) IN
       \/ /\ found # {}
          /\ IF cmd[t] = "join"
             THEN Return(t, "Already signed up", "final")
             ELSE /\ Goto(t, IF cmd[t] = "edit" THEN "roles" ELSE "remove")
                  \* .first(): one of the matching rows
                  /\ \E s \in found : sid' = [sid EXCEPT ![t] = {s.id}]
                  /\ UNCHANGED <<selected, unselected, had>>
       \/ /\ found = {}
          /\ IF cmd[t] = "join"
             THEN Goto(t, "add") /\ UNCHANGED <<sid, selected, unselected, had>>
             ELSE Return(t, "Not signup found for user", "final")
       \/ Unexpected(t)
    /\ UNCHANGED db_vars

\* join_training: new_signup.add(), then the "You signed up" edit of the anchor
AddSignup(t) ==
    /\ pc[t] = "add"
    /\ \/ /\ signups' = NewSignupAdd(DbUser(t).id, tid[t])
          /\ nextId' = nextId + 1
          /\ \/ /\ Goto(t, "roles")
                /\ sid' = [sid EXCEPT ![t] = {nextId}]
                /\ UNCHANGED <<selected, unselected, had>>
             \/ Finish(t, "Err", "final")
       \/ Unexpected(t) /\ UNCHANGED <<signups, nextId>>
    /\ UNCHANGED <<users, state, active, signup_roles>>

\* get_training_roles and the roles behind them, then the two starting sets
LoadRoles(t) ==
    /\ pc[t] = "roles"
    /\ LET loadable == {r \in GetTrainingRoles(tid[t]) : RoleLoads(r)} IN
       \/ \* get_training_roles().await? fails: the error is returned as it is
          Finish(t, "Err", "none")
       \/ /\ cmd[t] = "join"
          \* filter_map(|r| r.ok()): roles that do not load are skipped
          /\ selected' = [selected EXCEPT ![t] = {}]
          /\ unselected' = [unselected EXCEPT ![t] = loadable]
          /\ Goto(t, Then(cmd[t], "roles"))
          /\ UNCHANGED <<sid, had>>
       \/ /\ cmd[t] = "edit"
          /\ IF loadable # GetTrainingRoles(tid[t])
             THEN \* try_join_all(..).await? fails on a role that does not load
                  Finish(t, "Err", "none")
             ELSE LET stored == UNION {GetRoles(id) : id \in sid[t]} IN
                  /\ selected' = [selected EXCEPT ![t] = loadable \cap stored]
                  /\ unselected' = [unselected EXCEPT ![t] = loadable \ stored]
                  /\ had' = [had EXCEPT ![t] = stored]
                  /\ Goto(t, Then(cmd[t], "roles"))
                  /\ UNCHANGED sid
       \/ /\ cmd[t] = "edit"
          \* signup.get_roles() fails
          /\ Unexpected(t)
    /\ UNCHANGED db_vars

\* select_roles: the owner reacts with the emoji of role r
Toggle(t, r) ==
    /\ pc[t] = "select"
    /\ LET next == ToggleRole(selected[t], unselected[t], r) IN
       /\ selected' = [selected EXCEPT ![t] = next[1]]
       /\ unselected' = [unselected EXCEPT ![t] = next[2]]
    /\ ret' = NoRet
    /\ UNCHANGED <<lock, pc, cmd, owner, tid, sid, had, chan, anchor, db_vars,
                   ncmds, side_vars>>

\* select_roles returns Ok((selected, unselected)) on the confirm reaction
Confirm(t) ==
    /\ pc[t] = "select"
    /\ \/ /\ Goto(t, Then(cmd[t], "select"))
          /\ UNCHANGED <<sid, selected, unselected, had>>
       \/ /\ cmd[t] = "join"
          \* the "Saving roles..." edit fails
          /\ Finish(t, "Err", "final")
    /\ UNCHANGED db_vars

\* select_roles fails with Canceled on the cancel reaction
Cancel(t) ==
    /\ pc[t] = "select"
    /\ Return(t, "Canceled", "final")
    /\ UNCHANGED db_vars

\* select_roles fails with TimedOut when a wait returns None
TimeOut(t) ==
    /\ pc[t] = "select"
    /\ Return(t, "Timed out", "final")
    /\ UNCHANGED db_vars

\* select_roles fails with any other error
SelectError(t) ==
    /\ pc[t] = "select"
    /\ Unexpected(t)
    /\ UNCHANGED db_vars

\* edit_signup: signup.clear_roles()
ClearRoles(t) ==
    /\ pc[t] = "clear"
    /\ \/ /\ \E id \in sid[t] : signup_roles' = ClearRolesOf(id)
          /\ Goto(t, Then(cmd[t], "clear"))
          /\ UNCHANGED <<sid, selected, unselected, had>>
       \/ Unexpected(t) /\ UNCHANGED signup_roles
    /\ UNCHANGED <<users, state, active, signups, nextId>>

\* try_join_all of one NewSignupRole::add per selected role, and the final edit
SaveRoles(t) ==
    /\ pc[t] = "save"
    /\ \E id \in sid[t], done \in SUBSET selected[t] :
          /\ signup_roles' = NewSignupRoleAdd(id, done)
          /\ IF done = selected[t]
             THEN Return(t, "Success", "final")
             ELSE Unexpected(t)
    /\ UNCHANGED <<users, state, active, signups, nextId>>

\* remove_signup: signup.remove() and its arms
RemoveSignup(t) ==
    /\ pc[t] = "remove"
    /\ \/ \E id \in sid[t] :
            /\ signups' = signups \ RemoveMatches(id)
            \* the signup's roles go with it (foreign key of signup_roles)
            /\ signup_roles' = ClearRolesOf(id)
            /\ IF Cardinality(RemoveMatches(id)) = 1
               THEN Return(t, "Success", "final")
               ELSE Unexpected(t)
       \/ Unexpected(t) /\ UNCHANGED <<signups, signup_roles>>
    /\ UNCHANGED <<users, state, active, nextId>>

\* list_signup: active_signups, get_roles per signup, the final edit
ListSignups(t) ==
    /\ pc[t] = "list"
    /\ \/ \E sent \in BOOLEAN :
            /\ lock' = Drop(lock, owner[t])
            /\ ret' = [Returned(t, IF sent THEN "Success" ELSE "Err", "final")
                         EXCEPT !.listed = ActiveSignups(DbUser(t).id)]
            /\ Release(t)
       \/ Unexpected(t)
    /\ UNCHANGED db_vars

\* ------------------------------------------- registration and staff steps
EnvStep ==
    /\ ret' = NoRet
    /\ UNCHANGED <<lock, task_vars, ncmds, side_vars>>

\* upsert_user: insert, or on conflict of discord_id overwrite the row's columns
UpsertUser(u, g) ==
    /\ EnvStep
    /\ users' = UpsertRows(u, g)
    /\ UNCHANGED <<state, active, signups, signup_roles, nextId>>

\* Training::set_state
SetState(tr, st) ==
    /\ EnvStep
    /\ state' = UpdateState(tr, st)
    /\ UNCHANGED <<users, active, signups, signup_roles, nextId>>

\* Role::deactivate
Deactivate(r) ==
    /\ EnvStep
    /\ active' = DeactivateRole(r)
    /\ UNCHANGED <<users, state, signups, signup_roles, nextId>>

\* ---------------------------------------------------------------- Spec
Next ==
    \/ \E t \in Tasks :
        \/ Start(t) \/ CreateDm(t) \/ SendAnchor(t) \/ EndDialog(t)
        \/ Checks(t) \/ LookupSignup(t)
        \/ AddSignup(t) \/ LoadRoles(t) \/ Confirm(t) \/ Cancel(t)
        \/ TimeOut(t) \/ SelectError(t) \/ ClearRoles(t) \/ SaveRoles(t)
        \/ RemoveSignup(t) \/ ListSignups(t)
        \/ \E r \in Roles : Toggle(t, r)
    \/ UpsertUser("u2", "g1")
    \/ \E st \in {"Open", "Closed"} : SetState(1, st)
    \/ Deactivate("A")

Spec == Init /\ [][Next]_vars

\* ------------------------------------------- the selection specification
\* select_roles on its own: any two disjoint starting sets, then role emojis.
SelTask == "t1"

InitSelect ==
    /\ lock = {"u1"}
    /\ pc = [t \in Tasks |-> IF t = SelTask THEN "select" ELSE "idle"]
    /\ cmd = [t \in Tasks |-> IF t = SelTask THEN "edit" ELSE "none"]
    /\ owner = [t \in Tasks |-> IF t = SelTask THEN "u1" ELSE "none"]
    /\ tid = [t \in Tasks |-> IF t = SelTask THEN 1 ELSE 0]
    /\ sid = [t \in Tasks |-> IF t = SelTask THEN {1} ELSE {}]
    /\ chan = [t \in Tasks |-> t = SelTask]
    /\ anchor = [t \in Tasks |-> t = SelTask]
    /\ ret = NoRet
    /\ users = {[id |-> 1, discord_id |-> "u1", gw2_id |-> "g1"]}
    /\ state = [tr \in Trainings |-> "Open"]
    /\ active = [r \in Roles |-> TRUE]
    /\ signups = {[id |-> 1, user_id |-> 1, training_id |-> 1]}
    /\ nextId = 2
    /\ ncmds = 1
    /\ toggles = [r \in Roles |-> 0]
    /\ last_ev = NoEvent
    /\ sel_result = "waiting"
    /\ current = {}
    /\ channels = {}
    /\ messages = {}
    /\ bpc = [tr \in Trainings |-> "idle"]
    /\ bsnap = [tr \in Trainings |-> "none"]
    /\ bchan = [tr \in Trainings |-> {}]
    /\ bmsg = [tr \in Trainings |-> {}]
    /\ bret = NoBoardRet
    /\ nrefresh = 0
    /\ bclean = TRUE
    /\ config = {}
    /\ startup = "skipped"
    /\ now = 0
    /\ wait_start = 0
    /\ wait_kind = "await_reply"
    /\ nwaits = 0
    /\ timer_result = "waiting"
    /\ \E cand \in SUBSET Roles : \E sel \in SUBSET cand :
        /\ selected = [t \in Tasks |-> IF t = SelTask THEN sel ELSE {}]
        /\ unselected = [t \in Tasks |-> IF t = SelTask THEN cand \ sel ELSE {}]
        /\ had = [t \in Tasks |-> {}]
        /\ start_sel = sel
        /\ start_unsel = cand \ sel
        /\ signup_roles = {[signup_id |-> 1, role_id |-> r] : r \in sel}

\* one more reaction with the emoji of role r, counted
SelToggle(r) ==
    /\ toggles[r] < MaxToggles
    /\ toggles' = [toggles EXCEPT ![r] = @ + 1]
    /\ LET next == ToggleRole(selected[SelTask], unselected[SelTask], r) IN
       /\ selected' = [selected EXCEPT ![SelTask] = next[1]]
       /\ unselected' = [unselected EXCEPT ![SelTask] = next[2]]
    /\ UNCHANGED <<lock, pc, cmd, owner, tid, sid, had, chan, anchor, ret,
                   db_vars, ncmds, start_sel, start_unsel, board_vars,
                   timer_vars>>

\* a reaction of user u with emoji e on the anchor message during a wait step
SelReaction(u, e) ==
    /\ sel_result = "waiting"
    /\ last_ev' = [author |-> u, emoji |-> e]
    /\ IF AuthorFilter(u, owner[SelTask])
       THEN /\ sel_result' = OnWait(e)
            /\ IF e \in Roles
               THEN SelToggle(e)
               ELSE UNCHANGED <<lock, task_vars, ret, db_vars, ncmds, toggles,
                                start_sel, start_unsel, board_vars, timer_vars>>
       ELSE \* filtered out: the wait goes on
            UNCHANGED <<lock, task_vars, ret, db_vars, ncmds, toggles,
                        start_sel, start_unsel, sel_result, board_vars,
                        timer_vars>>

\* the wait step's timeout elapses: the collector yields None
SelTimeout ==
    /\ sel_result = "waiting"
    /\ last_ev' = Elapsed
    /\ sel_result' = OnWait("timeout")
    /\ UNCHANGED <<lock, task_vars, ret, db_vars, ncmds, toggles,
                   start_sel, start_unsel, board_vars, timer_vars>>

NextSelect ==
    \/ \E u \in Users, e \in Emojis : SelReaction(u, e)
    \/ SelTimeout

SpecSelect == InitSelect /\ [][NextSelect]_vars

\* every wait step carries the dialog timeout: a wait that stays without a
\* delivered event elapses
SpecSelectFair == SpecSelect /\ WF_vars(SelTimeout)

\* ------------------------------------------------- the signup board
\* the match on training.state at the head of update_training
BoardAccepts_All(st) == TRUE

\* faulty variant: only Finished is turned away
BoardAccepts_Created(st) == st # "Finished"

BoardAccepts(st) == st \in {"Open", "Closed", "Started"}

\* i32 to text and back: to_string, and parse::<i32> (the ids it yields)
IdText == [i \in Trainings |-> IF i = 1 THEN "1" ELSE "2"]
ParseI32(txt) == {i \in Trainings : IdText[i] = txt}

\* the description of a board message's embed: the training id between spoiler bars
Describe(id) == <<"||", IdText[id], "||">>

\* d.replace("||", "").parse::<i32>(): the ids the description parses to
ParseId(desc) ==
    LET rest == SelectSeq(desc, LAMBDA x : x # "||") IN
    IF Len(rest) = 1 THEN ParseI32(rest[1]) ELSE {}

\* faulty variant: the message is looked up in the cache
BoardMatches_Cached(m, tr) == \E p \in current : p[1] = m.id /\ p[2] = tr

\* the find over the channel's messages: the description parses to training.id
BoardMatches(m, tr) == ParseId(m.desc) = {tr}

\* faulty variant: the entry holds the training as stored now, not as loaded
CacheInsert_Live(id, tr) ==
    {p \in current : p[1] # id} \cup {<<id, tr, state[tr]>>}

\* self.current.insert(msg.id, Arc::new(training)): the Training is the value
\* Training::by_id returned at the start of the call
CacheInsert(id, tr) ==
    {p \in current : p[1] # id} \cup {<<id, tr, bsnap[tr]>>}

BoardFrame ==
    UNCHANGED <<lock, task_vars, ret, db_vars, ncmds, sel_vars, timer_vars,
                config, startup>>

\* pub const SIGNUP_BOARD_NAME
SIGNUP_BOARD_NAME == "signup_board_id"

\* Config::load: .filter(config::name.eq(&name)).first(...), which is
\* Err(NotFound) when no row has the name
ConfigLoad(name) == IF name \in config THEN "Ok" ELSE "NotFound"

\* Handler::ready: Config::load(SIGNUP_BOARD_NAME).ok(); None skips the reset
Ready == IF ConfigLoad(SIGNUP_BOARD_NAME) = "Ok" THEN "reset" ELSE "skipped"

\* the call returns: its locals are gone
BReturn(tr, res, act, m) ==
    /\ bpc' = [bpc EXCEPT ![tr] = "idle"]
    /\ bsnap' = [bsnap EXCEPT ![tr] = "none"]
    /\ bchan' = [bchan EXCEPT ![tr] = {}]
    /\ bmsg' = [bmsg EXCEPT ![tr] = {}]
    /\ bret' = [tr |-> tr, result |-> res, action |-> act, msg |-> m]
    /\ bclean' = (bclean /\ res = "Ok")

\* a ? in update_training propagates an error
BFail(tr) ==
    /\ BReturn(tr, "Err", "none", 0)
    /\ UNCHANGED <<current, channels, messages>>

BGoto(tr, p) ==
    /\ bpc' = [bpc EXCEPT ![tr] = p]
    /\ bret' = NoBoardRet
    /\ UNCHANGED <<current, bclean>>

\* update_training starts: Training::by_id and the match on the state.
\* Refreshes of one training run one after the other.
UpdateTraining(tr) ==
    /\ bpc[tr] = "idle"
    /\ nrefresh < MaxRefresh
    /\ nrefresh' = nrefresh + 1
    /\ \/ /\ BoardAccepts(state[tr])
          /\ BGoto(tr, "channels")
          /\ bsnap' = [bsnap EXCEPT ![tr] = state[tr]]
          /\ UNCHANGED <<bchan, bmsg>>
       \/ /\ ~BoardAccepts(state[tr])
          /\ BReturn(tr, "Invalid training state for signup board", "none", 0)
          /\ UNCHANGED current
       \/ BFail(tr)
    /\ UNCHANGED <<channels, messages>>
    /\ BoardFrame

\* Config::load, guild_id.channels and the find by name (over a map: any match)
BFindChannel(tr) ==
    /\ bpc[tr] = "channels"
    /\ LET match == {c \in channels : c.name = TimeFmt[date[tr]]} IN
       \/ /\ ConfigLoad(SIGNUP_BOARD_NAME) = "Ok"
          /\ match = {}
          /\ BGoto(tr, "create")
          /\ UNCHANGED <<bsnap, bchan, bmsg>>
       \/ \E c \in match :
          /\ ConfigLoad(SIGNUP_BOARD_NAME) = "Ok"
          /\ BGoto(tr, "messages")
          /\ bchan' = [bchan EXCEPT ![tr] = {c.id}]
          /\ UNCHANGED <<bsnap, bmsg>>
       \/ /\ ConfigLoad(SIGNUP_BOARD_NAME) # "Ok"
          /\ BReturn(tr, ConfigLoad(SIGNUP_BOARD_NAME), "none", 0)
          /\ UNCHANGED current
       \/ BFail(tr)
    /\ UNCHANGED <<channels, messages, nrefresh>>
    /\ BoardFrame

\* guild_id.create_channel
BCreateChannel(tr) ==
    /\ bpc[tr] = "create"
    /\ \/ LET id == Cardinality(channels) + 1 IN
          /\ channels' = channels \cup {[id |-> id, name |-> TimeFmt[date[tr]]]}
          /\ bchan' = [bchan EXCEPT ![tr] = {id}]
          /\ BGoto(tr, "messages")
          /\ UNCHANGED <<bsnap, bmsg>>
       \/ BFail(tr) /\ UNCHANGED channels
    /\ UNCHANGED <<messages, nrefresh>>
    /\ BoardFrame

\* channel.messages and the find; then active_roles and get_tier
BFindMessage(tr) ==
    /\ bpc[tr] = "messages"
    /\ LET found == {m \in messages : m.chan \in bchan[tr] /\ BoardMatches(m, tr)} IN
       \/ /\ found = {}
          /\ BGoto(tr, "write")
          /\ UNCHANGED <<bsnap, bchan, bmsg>>
       \/ \E m \in found :
          /\ BGoto(tr, "write")
          /\ bmsg' = [bmsg EXCEPT ![tr] = {m.id}]
          /\ UNCHANGED <<bsnap, bchan>>
       \/ BFail(tr)
    /\ UNCHANGED <<channels, messages, nrefresh>>
    /\ BoardFrame

\* msg.edit or channel.send_message, then the cache insert and Ok(Some(msg))
BWrite(tr) ==
    /\ bpc[tr] = "write"
    /\ \/ \E id \in bmsg[tr] :
          /\ messages' = {IF m.id = id THEN [m EXCEPT !.shown = bsnap[tr]] ELSE m
                            : m \in messages}
          /\ current' = CacheInsert(id, tr)
          /\ BReturn(tr, "Ok", "edit", id)
       \/ /\ bmsg[tr] = {}
          /\ \E ch \in bchan[tr] :
             LET id == Cardinality(messages) + 1 IN
             /\ messages' = messages \cup
                   {[id |-> id, chan |-> ch, desc |-> Describe(tr),
                     shown |-> bsnap[tr]]}
             /\ current' = CacheInsert(id, tr)
             /\ BReturn(tr, "Ok", "post", id)
       \/ BFail(tr)
    /\ UNCHANGED <<channels, nrefresh>>
    /\ BoardFrame

\* Config::save of the signup board category: insert, or update on conflict
ConfigSave(name) ==
    /\ config' = config \cup {name}
    /\ UNCHANGED <<lock, task_vars, ret, db_vars, ncmds, sel_vars, timer_vars>>
    /\ UNCHANGED <<current, channels, messages, bpc, bsnap, bchan, bmsg, bret,
                   nrefresh, bclean, startup>>

\* the process stops and starts again: SignupBoard::new, running calls are
\* gone, and Handler::ready runs
Restart ==
    /\ startup' = Ready
    /\ current' = {}
    /\ bpc' = [tr \in Trainings |-> "idle"]
    /\ bsnap' = [tr \in Trainings |-> "none"]
    /\ bchan' = [tr \in Trainings |-> {}]
    /\ bmsg' = [tr \in Trainings |-> {}]
    /\ bret' = NoBoardRet
    /\ bclean' = FALSE
    /\ UNCHANGED <<channels, messages, nrefresh, config>>
    /\ UNCHANGED <<lock, task_vars, ret, db_vars, ncmds, sel_vars, timer_vars>>

NextBoard ==
    \/ \E tr \in Trainings :
        \/ UpdateTraining(tr)
        \/ BFindChannel(tr)
        \/ BCreateChannel(tr)
        \/ BFindMessage(tr)
        \/ BWrite(tr)
    \/ Restart
    \/ ConfigSave(SIGNUP_BOARD_NAME)
    \/ \E st \in TrainingStates : SetState(1, st)

SpecBoard == Init /\ [][NextBoard]_vars

\* ------------------------------------------- the waits of one conversation
\* faulty variant: one deadline for the whole conversation, which starts at 0
WaitDeadline_FromStart(begun) == DEFAULT_TIMEOUT

\* await_reply / await_reaction: each call builds its collector with
\* .timeout(DEFAULT_TIMEOUT), which runs from the call
WaitDeadline(begun) == begun + DEFAULT_TIMEOUT

WaitHelpers == {"await_reply", "await_reaction"}

TimerFrame ==
    UNCHANGED <<lock, task_vars, ret, db_vars, ncmds, sel_vars, board_vars>>

\* a minute passes while the wait is pending
Tick ==
    /\ timer_result = "waiting"
    /\ now < MaxTime
    /\ now < WaitDeadline(wait_start)
    /\ now' = now + 1
    /\ UNCHANGED <<wait_start, wait_kind, nwaits, timer_result>>
    /\ TimerFrame

\* a qualifying event arrives before the deadline: the wait yields it and the
\* dialog goes on to its next wait, made with helper k
Answer(k) ==
    /\ timer_result = "waiting"
    /\ now < WaitDeadline(wait_start)
    /\ nwaits < MaxWaits
    /\ nwaits' = nwaits + 1
    /\ wait_start' = now
    /\ wait_kind' = k
    /\ UNCHANGED <<now, timer_result>>
    /\ TimerFrame

\* the deadline is reached: the wait yields None
Elapse ==
    /\ timer_result = "waiting"
    /\ now = WaitDeadline(wait_start)
    /\ timer_result' = "TimedOut"
    /\ UNCHANGED <<now, wait_start, wait_kind, nwaits>>
    /\ TimerFrame

NextTimer ==
    \/ Tick
    \/ \E k \in WaitHelpers : Answer(k)
    \/ Elapse

SpecTimer == Init /\ [][NextTimer]_vars

\* ------------------------------------------- the storage on its own
\* registrations and staff writes with every input, no dialog running
NextStore ==
    \/ \E u \in Users, g \in Gw2Ids : UpsertUser(u, g)
    \/ \E tr \in Trainings, st \in TrainingStates : SetState(tr, st)
    \/ \E r \in Roles : Deactivate(r)

SpecStore == Init /\ [][NextStore]_vars

\* ------------------------------------------- a ledger with signups in it
\* remove_signup and list_signup on a ledger that two users have signed up to:
\* u1 and u2 for training 1, u1 for the tiered training 2, which has no roles
InitLedger ==
    /\ lock = {}
    /\ pc = [t \in Tasks |-> "idle"]
    /\ cmd = [t \in Tasks |-> "none"]
    /\ owner = [t \in Tasks |-> "none"]
    /\ tid = [t \in Tasks |-> 0]
    /\ sid = [t \in Tasks |-> {}]
    /\ selected = [t \in Tasks |-> {}]
    /\ unselected = [t \in Tasks |-> {}]
    /\ had = [t \in Tasks |-> {}]
    /\ chan = [t \in Tasks |-> FALSE]
    /\ anchor = [t \in Tasks |-> FALSE]
    /\ ret = NoRet
    /\ users = {[id |-> 1, discord_id |-> "u1", gw2_id |-> "g1"],
                [id |-> 2, discord_id |-> "u2", gw2_id |-> "g2"]}
    /\ state = [tr \in Trainings |-> "Open"]
    /\ active = [r \in Roles |-> TRUE]
    /\ signups = {[id |-> 1, user_id |-> 1, training_id |-> 1],
                  [id |-> 2, user_id |-> 2, training_id |-> 1],
                  [id |-> 3, user_id |-> 1, training_id |-> 2]}
    /\ signup_roles = {[signup_id |-> 1, role_id |-> "A"],
                       [signup_id |-> 2, role_id |-> "B"]}
    /\ nextId = 4
    /\ ncmds = 0
    /\ toggles = [r \in Roles |-> 0]
    /\ start_sel = {}
    /\ start_unsel = {}
    /\ last_ev = NoEvent
    /\ sel_result = "waiting"
    /\ current = {}
    /\ channels = {}
    /\ messages = {}
    /\ bpc = [tr \in Trainings |-> "idle"]
    /\ bsnap = [tr \in Trainings |-> "none"]
    /\ bchan = [tr \in Trainings |-> {}]
    /\ bmsg = [tr \in Trainings |-> {}]
    /\ bret = NoBoardRet
    /\ nrefresh = 0
    /\ bclean = TRUE
    /\ config = {}
    /\ startup = "skipped"
    /\ now = 0
    /\ wait_start = 0
    /\ wait_kind = "await_reply"
    /\ nwaits = 0
    /\ timer_result = "waiting"

NextLedger ==
    \/ \E t \in Tasks :
        \/ Start(t) /\ cmd'[t] \in {"none", "remove", "list"}
        \/ CreateDm(t)
        \/ SendAnchor(t)
        \/ Checks(t)
        \/ LookupSignup(t)
        \/ RemoveSignup(t)
        \/ ListSignups(t)
    \/ \E tr \in Trainings, st \in TrainingStates : SetState(tr, st)

SpecLedger == InitLedger /\ [][NextLedger]_vars

\* ================================================================ claims
\* the tasks that hold the lock of user u: between the insert and the release
Holders(u) == {t \in Tasks : pc[t] # "idle" /\ owner[t] = u}
\* the tasks that own a constructed Conversation of user u
Live(u) == {t \in Holders(u) : pc[t] \notin {"dm", "anchor"}}
\* the Signup rows of a chat user for a training
SignupsOf(u, tr) ==
    {s \in signups : /\ s.training_id = tr
                     /\ \E row \in users : row.discord_id = u /\ row.id = s.user_id}
RolesOfSignup(s) == {sr.role_id : sr \in {x \in signup_roles : x.signup_id = s.id}}

\* C1: at most one task holds a Conversation (or is starting one) per user at
\* any instant, and a start that fails with ConversationLocked happens while
\* another task holds the user, opens no DM channel and sends no anchor message.
C1_OneConversationPerUser ==
    /\ [](/\ \A u \in Users : Cardinality(Holders(u)) <= 1
          /\ \A t \in Tasks : pc[t] = "idle" => ~chan[t] /\ ~anchor[t]
          /\ ret.result = "ConversationLocked" => Holders(ret.owner) # {})
    /\ [][ret'.result = "ConversationLocked" =>
            chan' = chan /\ anchor' = anchor /\ pc' = pc]_vars

C1_Witness ==
    /\ ret.result = "ConversationLocked"
    /\ Live(ret.owner) # {}

\* C2: the lock set holds only users of running commands, and in the state a
\* command with a constructed Conversation returns (whatever the path, a failed
\* final send included) its user is not in the lock set, so a start is not
\* rejected.
C2_LockReleasedOnEveryExit ==
    /\ lock \subseteq {owner[t] : t \in {x \in Tasks : pc[x] # "idle"}}
    /\ ret.result \notin {"none", "ConversationLocked", "NoDmChannel", "DmBlocked"}
         => ret.owner \notin lock

C2_Witness ==
    /\ ret.result = "Err"
    /\ ret.notice = "final"
    /\ ret.owner \notin lock

\* C3: when join_training returns after a timed-out or canceled role
\* selection, no Signup row of (user, training) exists.
C3_NoSignupAfterTimeoutOrCancel ==
    (ret.cmd = "join" /\ ret.result \in {"Timed out", "Canceled"})
        => SignupsOf(ret.owner, ret.tid) = {}

\* C4: the step that inserts the Signup of a join grows the training's signup
\* count by one, and when the join returns Success there is exactly one Signup
\* of (user, training), the one the flow inserted, and its SignupRoles are
\* exactly the confirmed set: one toggle of A from ({}, {A, B}) gives {A}.
C4_JoinStoresConfirmedRoles ==
    /\ ToggleRole({}, {"A", "B"}, "A") = <<{"A"}, {"B"}>>
    /\ [][\A t \in Tasks : \A u \in Users : \A tr \in Trainings :
            (owner[t] = u /\ tid[t] = tr) =>
            /\ (pc[t] = "add" /\ pc'[t] = "roles") =>
                 Cardinality({s \in signups' : s.training_id = tr})
                   = Cardinality({s \in signups : s.training_id = tr}) + 1
            /\ (cmd[t] = "join" /\ pc[t] = "save" /\ pc'[t] = "idle"
                  /\ ret'.result = "Success") =>
                 /\ Cardinality(SignupsOf(u, tr)') = 1
                 /\ \A s \in SignupsOf(u, tr)' :
                       /\ sid[t] = {s.id}
                       /\ RolesOfSignup(s) = {}
                       /\ RolesOfSignup(s)' = selected[t]]_vars

C4_Witness ==
    /\ ret.cmd = "join" /\ ret.result = "Success" /\ ret.tid = 1
    /\ \E s \in SignupsOf(ret.owner, 1) : RolesOfSignup(s) = {"A"}

\* C5: every SignupRole belongs to a Signup and references a role that is a
\* TrainingRole of that Signup's training.
C5_SignupRolesAreTrainingRoles ==
    \A sr \in signup_roles :
        \E s \in signups :
            /\ s.id = sr.signup_id
            /\ <<s.training_id, sr.role_id>> \in training_roles

C5_Witness ==
    /\ ret.cmd = "edit" /\ ret.result = "Success"
    /\ \E s \in SignupsOf(ret.owner, ret.tid) : RolesOfSignup(s) # {}

\* C6: there is at most one Signup row per (user, training) pair.
C6_OneSignupPerUserAndTraining ==
    \A s1, s2 \in signups :
        (s1.user_id = s2.user_id /\ s1.training_id = s2.training_id) => s1 = s2

C6_Witness ==
    /\ ret.cmd = "join" /\ ret.result = "Already signed up"
    /\ Cardinality(SignupsOf(ret.owner, ret.tid)) = 1

\* C7: in the state a start returns NoDmChannel or DmBlocked, its user is no
\* longer in the lock set.
C7_StartErrorReleasesLock ==
    ret.result \in {"NoDmChannel", "DmBlocked"} => ret.owner \notin lock

C7_Witness ==
    /\ ret.result = "DmBlocked"
    /\ ret.owner \notin lock

\* C8: a start that fails with ConversationLocked leaves the lock set as it
\* was: the user stays locked, by the task that held it before.
C8_LockedStartChangesNothing ==
    [][\A u \in Users :
         (ret'.result = "ConversationLocked" /\ ret'.owner = u) =>
             /\ lock' = lock
             /\ u \in lock'
             /\ Holders(u)' = Holders(u)
             /\ Holders(u) # {}]_vars

C8_Witness ==
    /\ ret.result = "ConversationLocked"
    /\ ret.owner \in lock
    /\ Holders(ret.owner) # {}

\* C9: after any sequence of toggles, a candidate role toggled an even number
\* of times is in the set it started in and one toggled an odd number of times
\* is in the other set; a role that is no candidate is in neither.
C9_ToggleParity ==
    \A r \in Roles :
        LET odd == toggles[r] % 2 = 1 IN
        /\ r \in start_sel =>
             /\ (r \in selected[SelTask]) = ~odd
             /\ (r \in unselected[SelTask]) = odd
        /\ r \in start_unsel =>
             /\ (r \in selected[SelTask]) = odd
             /\ (r \in unselected[SelTask]) = ~odd
        /\ r \notin start_sel \cup start_unsel =>
             r \notin selected[SelTask] \cup unselected[SelTask]

C9_Witness ==
    /\ toggles["A"] = 2 /\ toggles["B"] = 1
    /\ start_sel = {"A"} /\ start_unsel = {"B"}
    /\ selected[SelTask] = {"A", "B"}

\* C10: with zero candidate roles the selection still accepts confirm and
\* cancel, the confirmed set is empty, and the join that returns Success has
\* stored a Signup without SignupRoles.
C10_ZeroCandidates ==
    /\ \A t \in Tasks :
        (pc[t] = "select" /\ selected[t] \cup unselected[t] = {}) =>
            ENABLED Confirm(t) /\ ENABLED Cancel(t)
    /\ \A t \in Tasks :
        (cmd[t] = "join" /\ pc[t] = "save"
           /\ {q \in training_roles : q[1] = tid[t]} = {}) => selected[t] = {}
    /\ (ret.cmd = "join" /\ ret.result = "Success"
          /\ {q \in training_roles : q[1] = ret.tid} = {}) =>
            /\ SignupsOf(ret.owner, ret.tid) # {}
            /\ \A s \in SignupsOf(ret.owner, ret.tid) : RolesOfSignup(s) = {}

C10_Witness ==
    /\ ret.cmd = "join" /\ ret.result = "Success" /\ ret.tid = 2
    /\ \E s \in SignupsOf(ret.owner, 2) : RolesOfSignup(s) = {}

\* C11: a wait step that elapses without a delivered event ends the selection
\* with TimedOut: the selection is TimedOut exactly when its last wait step
\* elapsed, and it is Canceled or successful only on the owner's cancel or
\* confirm reaction.
C11_ElapsedWaitIsTimedOut ==
    /\ (last_ev = Elapsed) <=> (sel_result = "TimedOut")
    /\ sel_result = "Canceled" =>
         last_ev = [author |-> owner[SelTask], emoji |-> "cancel"]
    /\ sel_result = "Ok" =>
         last_ev = [author |-> owner[SelTask], emoji |-> "confirm"]

C11_Witness ==
    /\ sel_result = "TimedOut"
    /\ last_ev = Elapsed
    /\ toggles["A"] = 1

\* C12: a reaction of anybody but the conversation's owner changes neither of
\* the two sets nor the selection's result: the selection is still waiting.
C12_ForeignEventsIgnored ==
    [][(last_ev' # last_ev /\ last_ev'.author \in Users \ {owner[SelTask]}) =>
          /\ selected' = selected
          /\ unselected' = unselected
          /\ toggles' = toggles
          /\ sel_result' = sel_result
          /\ sel_result' = "waiting"]_vars

C12_Witness ==
    /\ last_ev = [author |-> "u2", emoji |-> "confirm"]
    /\ sel_result = "waiting"
    /\ toggles["A"] = 1
    /\ selected[SelTask] = {"A"} /\ start_sel = {}

\* the board messages whose description encodes training tr
BoardMessagesOf(tr) == {m \in messages : ParseId(m.desc) = {tr}}

\* C13: an update_training call for a training whose state is Created or
\* Finished (any state but Open, Closed, Started) returns an error in its first
\* step: it creates no channel, posts and edits no message, leaves the cache.
C13_InvalidStateTouchesNothing ==
    [][\A tr \in Trainings :
         (nrefresh' # nrefresh /\ (bpc'[tr] # bpc[tr] \/ bret'.tr = tr))
         => IF state[tr] \in {"Created", "Finished"}
            THEN /\ bpc'[tr] = "idle"
                 /\ bret'.tr = tr
                 /\ bret'.result \in {"Invalid training state for signup board", "Err"}
                 /\ channels' = channels
                 /\ messages' = messages
                 /\ current' = current
            ELSE bret'.result # "Invalid training state for signup board"]_vars

C13_Witness ==
    /\ bret.result = "Invalid training state for signup board"
    /\ bret.tr = 1
    /\ state[1] = "Finished"
    /\ BoardMessagesOf(1) # {}
    /\ current # {}

\* C14: after update_training calls that all succeeded (same training one
\* after the other, different trainings interleaved), none of them running,
\* there is at most one board message per training.
C14_OneBoardMessagePerTraining ==
    (bclean /\ \A tr \in Trainings : bpc[tr] = "idle") =>
        \A tr \in Trainings : Cardinality(BoardMessagesOf(tr)) <= 1

\* C17: the step of update_training that writes takes its decision from the
\* messages of the channel alone: it edits exactly when the channel holds a
\* message encoding the training, and then that message, whatever the cache holds.
C17_CacheIsNoSourceOfTruth ==
    [][\A tr \in Trainings :
         (bpc[tr] = "write" /\ bpc'[tr] = "idle" /\ bret'.result = "Ok") =>
            LET there == {m \in messages : m.chan \in bchan[tr]
                                            /\ ParseId(m.desc) = {tr}} IN
            /\ bret'.tr = tr
            /\ ((bret'.action = "edit") <=> (there # {}))
            /\ ((bret'.action = "post") <=> (there = {}))
            /\ (bret'.action = "edit" => bret'.msg \in {m.id : m \in there})
            /\ (bret'.action = "post" => bret'.msg \notin {m.id : m \in messages})]_vars

C17_Witness ==
    /\ bret.result = "Ok" /\ bret.action = "edit"
    /\ \E st \in TrainingStates : current = {<<bret.msg, bret.tr, st>>}
    /\ Cardinality(messages) = 2

\* C15: a flow that returns an error because a storage operation failed (not
\* because its own closing message could not be sent) has attempted the
\* unexpected-error message before returning.
C15_ErrorsAreAnnounced ==
    (ret.cmd \in Flows /\ ret.result = "Err" /\ ret.notice # "final")
        => ret.notice = "unexpected"

\* the lookup of a join_training by u for tr finds a Signup: the join is
\* answered with "Already signed up"
RejoinRejected(u, tr) ==
    \E row \in UserByDiscordId(u) : ByUserAndTraining(row.id, tr) # {}

\* C16: when a join_training returns because the role selection timed out and
\* the training is still Open, the same join invoked again is not rejected by
\* its signup lookup: it gets to the role selection again.
C16_TimedOutJoinCanBeRepeated ==
    (ret.cmd = "join" /\ ret.result = "Timed out"
       /\ ByIdAndState(ret.tid, "Open") # {})
        => ~RejoinRejected(ret.owner, ret.tid)

\* C18: there is at most one User row per chat identity (and per id), and an
\* upsert changes the table in one of two ways only: a row for a new identity is
\* added, or the row of a known identity gets the game identity given, keeping
\* its id; all other rows stay as they are.
C18_UpsertKeepsOneRowPerIdentity ==
    /\ [](\A r1, r2 \in users :
            (r1.discord_id = r2.discord_id \/ r1.id = r2.id) => r1 = r2)
    /\ [][users' # users =>
            \E u \in Users, g \in Gw2Ids :
                /\ [discord_id |-> u, gw2_id |-> g] \in
                      {[discord_id |-> row.discord_id, gw2_id |-> row.gw2_id]
                         : row \in users'}
                /\ \A row \in users :
                      IF row.discord_id = u
                      THEN [row EXCEPT !.gw2_id = g] \in users'
                      ELSE row \in users'
                /\ \A row \in users' :
                      row.discord_id # u => row \in users]_vars

C18_Witness ==
    /\ [id |-> 1, discord_id |-> "u1", gw2_id |-> "g2"] \in users
    /\ [id |-> 2, discord_id |-> "u2", gw2_id |-> "g1"] \in users
    /\ Cardinality(users) = 2

\* C19: a step that changes the active flags sets the flag of one role to
\* false and nothing else: every role keeps its row, and the SignupRoles,
\* the Signups and the TrainingRoles are as they were.
C19_DeactivateOnlyFlipsFlag ==
    [][active' # active =>
         /\ DOMAIN active' = DOMAIN active
         /\ \E r \in Roles : active[r] /\ active' = [active EXCEPT ![r] = FALSE]
         /\ signup_roles' = signup_roles
         /\ signups' = signups
         /\ \A sr \in signup_roles : sr.role_id \in DOMAIN active'
         /\ \A q \in training_roles : q[2] \in DOMAIN active']_vars

C19_Witness ==
    /\ ~active["A"]
    /\ \E sr \in signup_roles : sr.role_id = "A"

\* the tasks inside a signup flow: after the successful start, before the return
InFlow == {t \in Tasks : cmd[t] \in Flows /\ pc[t] \notin {"idle", "dm", "anchor"}}

\* C20: at every suspension point of a signup flow between its successful
\* start and its return, the flow's user is in the lock set.
C20_LockHeldThroughoutFlow ==
    \A t \in InFlow : owner[t] \in lock

C20_Witness ==
    /\ ret.result = "Success" /\ ret.owner = "u1"
    /\ \E t \in InFlow :
        /\ owner[t] = "u2" /\ cmd[t] = "join" /\ pc[t] = "select"
        /\ owner[t] \in lock

\* C21: the selection turns successful only on the owner's confirm reaction,
\* with the selected set as it stands, and Canceled only on the owner's cancel
\* reaction; and with an owner who confirms, cancels or stops reacting the
\* selection ends.
C21_SelectionEndsOnOwnersWord ==
    /\ [][/\ (sel_result # "Ok" /\ sel_result' = "Ok") =>
               /\ last_ev' = [author |-> owner[SelTask], emoji |-> "confirm"]
               /\ selected' = selected
          /\ (sel_result # "Canceled" /\ sel_result' = "Canceled") =>
               last_ev' = [author |-> owner[SelTask], emoji |-> "cancel"]
          /\ sel_result # "waiting" => sel_result' = sel_result]_vars
    /\ <>(sel_result # "waiting")

C21_Witness ==
    /\ sel_result = "Ok"
    /\ last_ev = [author |-> owner[SelTask], emoji |-> "confirm"]
    /\ toggles = [r \in Roles |-> IF r = "B" THEN 1 ELSE 0]
    /\ start_unsel = {"A", "B"}
    /\ selected[SelTask] = {"B"}

StateRank(st) == CHOOSE i \in 1..Len(TrainingState) : TrainingState[i] = st

\* C24 (as stated): a training's lifecycle state only moves forward in the
\* order Created, Open, Closed, Started, Finished; no Training::set_state call
\* takes it from a later state back to an earlier one.
C24_StateOnlyMovesForward ==
    [][\A tr \in Trainings : StateRank(state'[tr]) >= StateRank(state[tr])]_vars

\* C24 (amended): Training::set_state stores the state it is given without
\* looking at the stored one; a call changes the state of its own training
\* and nothing else, so the forward order is kept only by what callers pass.
C24_SetStateStoresWhatItIsGiven ==
    [][\A tr \in Trainings :
          state'[tr] # state[tr] =>
              /\ state'[tr] \in TrainingStates
              /\ \A o \in Trainings \ {tr} : state'[o] = state[o]
              /\ UNCHANGED <<users, active, signups, signup_roles, nextId>>]_vars

\* a training that started Open is back in Created while another is Finished
C24_Witness ==
    /\ state[1] = "Created"
    /\ state[2] = "Finished"

\* C23: a missing configuration key is a non-fatal "feature disabled" signal:
\* with no signup-board category key stored, startup skips the board reset
\* without failing, and a board refresh does not surface an error.
C23_MissingKeyIsNotAnError ==
    /\ (SIGNUP_BOARD_NAME \notin config) => startup = "skipped"
    /\ bret.result # "NotFound"

\* C25: join_training never persists a partial role selection: when the save
\* of the confirmed roles ends the command, the user's Signup does not carry a
\* strict subset of the confirmed roles.
C25_JoinNeverLeavesPartialRoles ==
    [][\A t \in Tasks : \A id \in sid[t] :
          (cmd[t] = "join" /\ pc[t] = "save" /\ pc'[t] = "idle") =>
              LET kept == {sr.role_id :
                             sr \in {x \in signup_roles' : x.signup_id = id}}
              IN ~ /\ \E s \in signups' : s.id = id
                   /\ kept \subseteq selected[t]
                   /\ kept # selected[t]]_vars

\* the role ids that a signup_roles table holds for signup id
RolesIn(table, id) == {sr.role_id : sr \in {x \in table : x.signup_id = id}}

\* C26 (as stated): an edit_signup that fails after clear_roles and before
\* every insert completed leaves the signup with neither its previous role set
\* nor the confirmed role set.
C26_FailedEditLeavesNeitherSet ==
    [][\A t \in Tasks : \A id \in sid[t] :
          (cmd[t] = "edit" /\ pc[t] = "save" /\ pc'[t] = "idle"
             /\ ret'.notice = "unexpected") =>
              /\ RolesIn(signup_roles', id) # had[t]
              /\ RolesIn(signup_roles', id) # selected[t]]_vars

\* C26 (amended): in edit_signup the clear and the inserts are separate steps:
\* the clear leaves the signup without roles while the command goes on, and a
\* failure of the inserts leaves it with the inserts that completed, a strict
\* subset of the confirmed set, whatever the previous set was; the Signup row
\* stays.
C26_FailedEditKeepsCompletedInserts ==
    [][\A t \in Tasks : \A id \in sid[t] :
          /\ (cmd[t] = "edit" /\ pc[t] = "clear" /\ pc'[t] = "save") =>
                 /\ RolesIn(signup_roles', id) = {}
                 /\ signups' = signups
          /\ (cmd[t] = "edit" /\ pc[t] = "save" /\ pc'[t] = "idle"
                /\ ret'.notice = "unexpected") =>
                 /\ RolesIn(signup_roles', id) \subseteq selected[t]
                 /\ RolesIn(signup_roles', id) # selected[t]
                 /\ signups' = signups]_vars

\* inside the window: the previous roles {A} are cleared, the confirmed set
\* {A, B} is not stored yet
C26_Witness ==
    \E t \in Tasks : \E id \in sid[t] :
        /\ cmd[t] = "edit" /\ pc[t] = "save"
        /\ had[t] = {"A"}
        /\ selected[t] = {"A", "B"}
        /\ RolesIn(signup_roles, id) = {}

\* C27: an edit_signup whose role selection times out or is canceled leaves
\* the stored SignupRoles as they were before the command: all through the
\* selection the signup holds the roles the command found, and the step that
\* returns "Timed out" or "Canceled" writes nothing.
C27_UnconfirmedEditChangesNothing ==
    /\ [](\A t \in Tasks : \A id \in sid[t] :
            (cmd[t] = "edit" /\ pc[t] = "select") =>
                RolesIn(signup_roles, id) = had[t])
    /\ [][\A t \in Tasks :
            (cmd[t] = "edit" /\ pc[t] = "select" /\ pc'[t] = "idle") =>
                /\ signup_roles' = signup_roles
                /\ signups' = signups]_vars

C27_Witness ==
    /\ ret.cmd = "edit"
    /\ ret.result = "Timed out"
    /\ \E s \in SignupsOf(ret.owner, ret.tid) :
           RolesIn(signup_roles, s.id) = {"A"}

\* C28: after a successful edit_signup the signup's SignupRoles are exactly
\* the confirmed set (no deselected role is left, every selected role is
\* there), and the Signup rows are the same as before.
C28_SuccessfulEditStoresConfirmedSet ==
    [][\A t \in Tasks : \A id \in sid[t] :
          (cmd[t] = "edit" /\ pc[t] = "save" /\ pc'[t] = "idle"
             /\ ret'.result = "Success") =>
              /\ RolesIn(signup_roles', id) = selected[t]
              /\ (had[t] \ selected[t]) \cap RolesIn(signup_roles', id) = {}
              /\ signups' = signups
              /\ \E s \in signups' : s.id = id]_vars

C28_Witness ==
    /\ ret.cmd = "edit"
    /\ ret.result = "Success"
    /\ \E s \in SignupsOf(ret.owner, ret.tid) :
           RolesIn(signup_roles, s.id) = {"B"}

\* the positions of a flow from its role selection on
Selecting == {"select", "clear", "save"}

\* C29: during role selection the selected and unselected sets are disjoint
\* and their union is the candidate set the flow loaded for its training, the
\* same at every step; the set the confirm hands on is a subset of it.
C29_SelectionKeepsPartition ==
    /\ [](\A t \in Tasks :
            pc[t] \in Selecting =>
                /\ selected[t] \cap unselected[t] = {}
                /\ selected[t] \cup unselected[t] \subseteq
                       {r \in Roles : <<tid[t], r>> \in training_roles})
    /\ [][\A t \in Tasks :
            (pc[t] \in Selecting /\ pc'[t] \in Selecting) =>
                selected'[t] \cup unselected'[t] =
                    selected[t] \cup unselected[t]]_vars

\* an edit that found {A} stored, after A was deselected and B selected
C29_Witness ==
    \E t \in Tasks :
        /\ cmd[t] = "edit" /\ pc[t] = "select"
        /\ had[t] = {"A"}
        /\ selected[t] = {"B"}
        /\ unselected[t] = {"A"}

\* the flows that open with the lookup of an Open training
OpenOnly == {"join", "edit", "remove"}

\* C30 (as stated): join_training, edit_signup and remove_signup act only on
\* trainings in state Open: while the training of such a command does not
\* exist or is in another state, no step of the command creates, changes or
\* deletes a Signup or a SignupRole.
C30_FlowsActOnlyOnOpenTrainings ==
    [][\A t \in Tasks :
          (cmd[t] \in OpenOnly /\ pc'[t] # pc[t]
             /\ ~(tid[t] \in Trainings /\ state[tid[t]] = "Open")) =>
              /\ signups' = signups
              /\ signup_roles' = signup_roles]_vars

\* C30 (amended): the three flows look the training up once, after the user
\* lookup: a registered user's command whose training does not exist or is not
\* Open at that lookup ends there, with the not-open outcome or an error, and
\* writes nothing; a command gets past the lookup only while the training is
\* Open. What happens to the state afterwards is not checked again.
C30_NotOpenAtTheLookupWritesNothing ==
    [][\A t \in Tasks :
          (cmd[t] \in OpenOnly /\ pc[t] = "user" /\ pc'[t] # pc[t]) =>
              /\ (UserByDiscordId(owner[t]) # {}
                    /\ ~(tid[t] \in Trainings /\ state[tid[t]] = "Open")) =>
                     /\ pc'[t] = "idle"
                     /\ ret'.result \in {"Training not found or not open", "Err"}
                     /\ UNCHANGED db_vars
              /\ pc'[t] = "signup" =>
                     (tid[t] \in Trainings /\ state[tid[t]] = "Open")]_vars

\* an edit of an existing signup was turned away because the training is Closed
C30_Witness ==
    /\ ret.cmd = "edit"
    /\ ret.result = "Training not found or not open"
    /\ state[ret.tid] = "Closed"
    /\ \E s \in SignupsOf(ret.owner, ret.tid) : RolesIn(signup_roles, s.id) # {}

\* C31: a join_training by a registered user who does not fulfil the tier
\* requirement of an Open training ends at the tier check: it creates no
\* Signup and no SignupRole, and the user's lock is released.
C31_TierFailureWritesNothing ==
    [][\A t \in Tasks :
          (cmd[t] = "join" /\ pc[t] = "user" /\ pc'[t] # pc[t]
             /\ UserByDiscordId(owner[t]) # {}
             /\ ByIdAndState(tid[t], "Open") # {}
             /\ tier_id[tid[t]] # "none"
             /\ owner[t] \notin tier_holders) =>
              /\ pc'[t] = "idle"
              /\ ret'.result \in {"Tier requirement not fulfilled", "Err"}
              /\ signups' = signups
              /\ signup_roles' = signup_roles
              /\ owner[t] \notin lock']_vars

C31_Witness ==
    /\ ret.cmd = "join"
    /\ ret.result = "Tier requirement not fulfilled"
    /\ ret.owner \notin tier_holders
    /\ tier_id[ret.tid] # "none"
    /\ ret.owner \notin lock
    /\ SignupsOf(ret.owner, ret.tid) = {}

\* C32: for a chat user without a User record, join_training, edit_signup,
\* remove_signup and list_signup end at the user lookup with the
\* not-registered outcome (or the error of a failed read or reply), write
\* nothing to storage and release the user's lock.
C32_UnregisteredUserWritesNothing ==
    [][\A t \in Tasks :
          (cmd[t] \in Flows /\ pc[t] = "user" /\ pc'[t] # pc[t]
             /\ \A row \in users : row.discord_id # owner[t]) =>
              /\ pc'[t] = "idle"
              /\ ret'.result \in {"User not registered", "Err"}
              /\ UNCHANGED db_vars
              /\ owner[t] \notin lock']_vars

C32_Witness ==
    /\ ret.cmd = "remove"
    /\ ret.result = "User not registered"
    /\ \A row \in users : row.discord_id # ret.owner
    /\ ret.owner \notin lock

\* the User ids of a chat user
UserIds(u) == {row.id : row \in {x \in users : x.discord_id = u}}

\* C33: a remove_signup that deletes anything deletes the Signup of its own
\* (user, training) and the SignupRoles of that Signup, nothing of another
\* user or training; it returns Success only when exactly one Signup went,
\* and any other count is an error; when the user has no Signup for the
\* training the command says so and deletes nothing.
C33_RemoveDeletesOwnSignupOnly ==
    [][\A t \in Tasks :
          cmd[t] = "remove" =>
              /\ (pc[t] = "remove" /\ pc'[t] = "idle") =>
                    LET gone == signups \ signups' IN
                    /\ signups' \subseteq signups
                    /\ \A s \in gone : /\ s.training_id = tid[t]
                                       /\ s.user_id \in UserIds(owner[t])
                    /\ \A sr \in signup_roles :
                           sr \in signup_roles' <=>
                               ~(\E s \in gone : s.id = sr.signup_id)
                    /\ signup_roles' \subseteq signup_roles
                    /\ ret'.result = "Success" => Cardinality(gone) = 1
                    /\ Cardinality(gone) # 1 => ret'.result = "Err"
              /\ (pc[t] = "signup" /\ pc'[t] = "idle"
                    /\ ret'.result = "Not signup found for user") =>
                    /\ ~(\E s \in signups : /\ s.training_id = tid[t]
                                            /\ s.user_id \in UserIds(owner[t]))
                    /\ signups' = signups
                    /\ signup_roles' = signup_roles]_vars

\* u1 left training 1: u2's signup for it and u1's signup for training 2 stay
C33_Witness ==
    /\ ret.cmd = "remove" /\ ret.result = "Success"
    /\ ret.owner = "u1" /\ ret.tid = 1
    /\ signups = {[id |-> 2, user_id |-> 2, training_id |-> 1],
                  [id |-> 3, user_id |-> 1, training_id |-> 2]}
    /\ signup_roles = {[signup_id |-> 2, role_id |-> "B"]}

\* C34: what User::active_signups returns to list_signup are exactly the
\* signups of the given user whose training is Open, Closed or Started, never
\* a signup of another user.
C34_ListingIsTheUsersActiveSignups ==
    (ret.cmd = "list" /\ ret.result = "Success") =>
        \A s \in signups :
            s \in ret.listed =>
                /\ s.user_id \in UserIds(ret.owner)
                /\ state[s.training_id] \in {"Open", "Closed", "Started"}

\* C35: whatever the interleaving of update_training calls for trainings of
\* the same date, the signup-board category holds at most one channel named
\* for that date.
C35_OneChannelPerDate ==
    \A c1, c2 \in channels : c1.name = c2.name => c1 = c2

\* C36: when update_training returns Ok, the cache maps the id of the message
\* it edited or posted to the Training as that call loaded it, and every entry
\* under another message id is as it was before.
C36_CacheGetsTheLoadedTraining ==
    [][\A tr \in Trainings :
         (bpc[tr] = "write" /\ bpc'[tr] = "idle" /\ bret'.result = "Ok") =>
            LET id == bret'.msg IN
            /\ id \in {m.id : m \in messages'}
            /\ {p \in current' : p[1] = id} = {<<id, tr, bsnap[tr]>>}
            /\ {p \in current' : p[1] # id} = {p \in current : p[1] # id}]_vars

C36_Witness ==
    /\ bret.result = "Ok" /\ bret.action = "edit"
    /\ Cardinality(current) = 2
    /\ <<bret.msg, bret.tr, "Closed">> \in current
    /\ state[bret.tr] = "Started"

\* C37: every Training in the cache was Open, Closed or Started when it was
\* loaded and inserted, and no step of an update_training that has not returned
\* Ok, its failing return included, changes the cache.
C37_CacheHoldsBoardStatesOnly ==
    /\ [](\A p \in current : p[3] \in {"Open", "Closed", "Started"})
    /\ [][\A tr \in Trainings :
            (\/ bpc'[tr] # "idle" /\ bpc'[tr] # bpc[tr]
             \/ /\ bpc'[tr] = "idle"
                /\ bpc[tr] # "idle" \/ nrefresh' # nrefresh
                /\ bret'.tr = tr
                /\ bret'.result # "Ok")
            => current' = current]_vars

C37_Witness ==
    /\ bret.result = "Err"
    /\ \E p \in current : p[2] = bret.tr /\ state[p[2]] = "Finished"
    /\ \E m \in messages : m.id \notin {p[1] : p \in current}

\* C38: the lock is per user. A start is answered ConversationLocked only
\* while a Conversation of the same user is under way, whatever Conversations
\* of other users are live, waiting or failing; and a user leaves the lock only
\* in a step that ends a Conversation of that user.
C38_LockIsPerUser ==
    [][/\ (ncmds' # ncmds /\ ret'.result = "ConversationLocked") =>
            \E t \in Tasks : pc[t] # "idle" /\ owner[t] = ret'.owner
       /\ \A v \in Users :
            (v \in lock /\ v \notin lock') =>
                \E t \in Tasks : /\ owner[t] = v
                                 /\ pc[t] # "idle" /\ pc'[t] = "idle"
                                 /\ ret'.owner = v]_vars

C38_Witness ==
    /\ pc["t1"] = "idle" /\ ret.owner = "u1" /\ ret.result = "Err"
    /\ pc["t2"] # "idle" /\ owner["t2"] = "u2"
    /\ lock = {"u2"}

\* C39 (as stated): a deactivated role is never among the candidates a role
\* selection starts with, and no SignupRole is stored for a role that is
\* deactivated when it is stored.
C39_DeactivatedRoleNeverStored ==
    [][/\ \A t \in Tasks :
            (pc[t] = "roles" /\ pc'[t] \in Selecting) =>
                \A r \in selected'[t] \cup unselected'[t] : active[r]
       /\ \A sr \in signup_roles' \ signup_roles : active[sr.role_id]]_vars

\* C39: a role that is deactivated when join_training or edit_signup loads the
\* roles of the training is not among the candidates of that flow, the
\* candidates never grow during the selection, and the SignupRoles a flow
\* stores are for roles selected among its candidates. A role deactivated
\* after the load stays a candidate and can be stored.
C39_RolesInactiveAtTheLoadAreLeftOut ==
    [][/\ \A t \in Tasks :
            /\ (pc[t] = "roles" /\ pc'[t] \in Selecting) =>
                  \A r \in selected'[t] \cup unselected'[t] : active[r]
            /\ (pc[t] \in Selecting /\ pc'[t] \in Selecting) =>
                  selected'[t] \cup unselected'[t] \subseteq
                      selected[t] \cup unselected[t]
       /\ signup_roles' \ signup_roles # {} =>
            \E t \in Tasks :
                /\ pc[t] = "save" /\ pc'[t] # "save"
                /\ \A sr \in signup_roles' \ signup_roles :
                      sr.role_id \in selected[t]]_vars

\* a join whose load left the deactivated training role A out, about to store B
C39_Witness ==
    \E t \in Tasks :
        /\ cmd[t] = "join" /\ pc[t] = "save"
        /\ ~active["A"] /\ <<tid[t], "A">> \in training_roles
        /\ "A" \notin selected[t] \cup unselected[t]
        /\ selected[t] = {"B"}

====
